---- MODULE Spec2Model ----
(***************************************************************************)
(* Route ingestion (backend/data_ingestion.py) and the similar-routes      *)
(* recommender (backend/server.py) as a state machine.                     *)
(*                                                                         *)
(* Texts are sequences of one-character strings.  TF-IDF weights are held  *)
(* in fixed point (ten units per 1.0 of idf) and fingerprints are held up  *)
(* to a positive scale: the L2 normalisation TfidfVectorizer applies to a  *)
(* row is undone by cosine_similarity, which normalises both arguments     *)
(* again.  A similarity is the reduced fraction <<num, den>> of its        *)
(* square, so 1.0 is <<1, 1>> and 0.0 is <<0, 1>>; weights are never       *)
(* negative, so the order of the squares is the order of the cosines.      *)
(***************************************************************************)
EXTENDS Integers, Sequences, FiniteSets, TLC

(***************************************************************************)
(* Bounds of the model.                                                    *)
(***************************************************************************)
MaxRows == 2
MaxTopK == 3
MaxBad == 1

(***************************************************************************)
(* Program constants.                                                      *)
(***************************************************************************)
MinN == 2
MaxN == 5
MaxFeatures == 128
BatchSize == 1000

(***************************************************************************)
(* Characters and strings.                                                 *)
(***************************************************************************)
LowerChars ==
  << "a", "b", "c", "d", "e", "f", "g", "h", "i", "j", "k", "l", "m",
     "n", "o", "p", "q", "r", "s", "t", "u", "v", "w", "x", "y", "z" >>

UpperChars ==
  << "A", "B", "C", "D", "E", "F", "G", "H", "I", "J", "K", "L", "M",
     "N", "O", "P", "Q", "R", "S", "T", "U", "V", "W", "X", "Y", "Z" >>

\* Code point order of the characters route texts are made of.
CodePointOrder == << " ", "-" >> \o UpperChars \o LowerChars

IndexIn(seq, c) == CHOOSE i \in DOMAIN seq : seq[i] = c

IsIn(seq, c) == \E i \in DOMAIN seq : seq[i] = c

UpperChar(c) == IF IsIn(LowerChars, c) THEN UpperChars[IndexIn(LowerChars, c)] ELSE c

LowerChar(c) == IF IsIn(UpperChars, c) THEN LowerChars[IndexIn(UpperChars, c)] ELSE c

\* A buggy upper(): keeps only the characters that are already upper case.
UpperKeepsOnlyCapitals(s) == SelectSeq(s, LAMBDA c : ~IsIn(LowerChars, c))

\* str.upper()
Upper(s) == [i \in DOMAIN s |-> UpperChar(s[i])]

\* str.lower(), the vectorizer's preprocessing (lowercase=True by default)
Lower(s) == [i \in DOMAIN s |-> LowerChar(s[i])]

Min(a, b) == IF a < b THEN a ELSE b

Max(a, b) == IF a > b THEN a ELSE b

RECURSIVE Pow(_, _)
Pow(b, e) == IF e = 0 THEN 1 ELSE b * Pow(b, e - 1)

RECURSIVE Gcd(_, _)
Gcd(a, b) == IF b = 0 THEN a ELSE Gcd(b, a % b)

RECURSIVE SumSeq(_)
SumSeq(s) ==
  IF Len(s) = 0 THEN 0
  ELSE IF Len(s) = 1 THEN s[1]
  ELSE LET half == Len(s) \div 2
       IN SumSeq(SubSeq(s, 1, half)) + SumSeq(SubSeq(s, half + 1, Len(s)))

(***************************************************************************)
(* TfidfVectorizer(analyzer='char_wb', ngram_range=(2, 5),                 *)
(*                 max_features=128)                                       *)
(***************************************************************************)

\* The lengths n the analyzer emits for a padded word of length len: every n
\* of the range, stopping after the first n the word is not longer than.
NGramLengths(len) == {n \in MinN..MaxN : \A m \in MinN..(n - 1) : len > m}

\* char_wb analysis of a text of one word (no white space inside): lower
\* case, pad with one space on each side, slide windows of each length.
\* The result is the sequence of emitted n-grams, repeats included.
RECURSIVE Analyze(_, _)
Analyze(w, n) ==
  IF n > MaxN \/ n \notin NGramLengths(Len(w)) THEN << >>
  ELSE [k \in 1..Max(1, Len(w) - n + 1) |-> SubSeq(w, k, Min(k + n - 1, Len(w)))]
       \o Analyze(w, n + 1)

NGrams(text) == Analyze(<< " " >> \o Lower(text) \o << " " >>, MinN)

\* A sequence written out element by element (what it denotes is unchanged;
\* it is evaluated once instead of at each use).
Array(s) == s \o << >>

\* Number of times n-gram g occurs in the emitted sequence grams.
TermCount(g, grams) == Cardinality({k \in DOMAIN grams : grams[k] = g})

\* The weight of each character position in a sort key.
PlaceValue == Array([i \in 1..MaxN |-> Pow(Len(CodePointOrder) + 1, MaxN - i)])

\* Sort key of an n-gram: its characters as digits, most significant first,
\* so that the order of keys is the order Python sorts the strings in.
SortKey(g) ==
  SumSeq([i \in DOMAIN g |-> IndexIn(CodePointOrder, g[i]) * PlaceValue[i]])

\* sorted(S): the n-grams of S in increasing key order (distinct n-grams
\* have distinct keys).
SortedFeatures(S) ==
  LET keyed == {<< SortKey(g), g >> : g \in S}
      placed == {<< Cardinality({y \in keyed : y[1] < x[1]}) + 1, x[2] >> : x \in keyed}
  IN Array([p \in 1..Cardinality(S) |-> (CHOOSE x \in placed : x[1] = p)[2]])

\* floor(100 * e^(k/10)) for k = 0..80
ExpTable ==
  << 100, 110, 122, 134, 149, 164, 182, 201, 222, 245, 271, 300, 332, 366, 405, 448,
     495, 547, 604, 668, 738, 816, 902, 997, 1102, 1218, 1346, 1487, 1644, 1817, 2008,
     2219, 2453, 2711, 2996, 3311, 3659, 4044, 4470, 4940, 5459, 6034, 6668, 7369, 8145,
     9001, 9948, 10994, 12151, 13428, 14841, 16402, 18127, 20033, 22140, 24469, 27042,
     29886, 33029, 36503, 40342, 44585, 49274, 54457, 60184, 66514, 73509, 81240, 89784,
     99227, 109663, 121196, 133943, 148029, 163598, 180804, 199819, 220834, 244060,
     269728, 298095 >>

\* Smooth idf, ln((1 + n) / (1 + df)) + 1, in tenths, rounded down.
Idf(n, df) ==
  LET ks == {k \in DOMAIN ExpTable : 100 * (1 + n) >= (1 + df) * ExpTable[k]}
  IN 10 + (CHOOSE k \in ks : \A j \in ks : j <= k) - 1

\* numpy argsort with the default kind: ascending, and not promised to be
\* stable.  Where equal values land is a property of the numpy build, which
\* tieBreak names: "index_asc" keeps equal values in index order (what the
\* insertion sort used on short arrays does), "index_desc" reverses them.
\* less[i][j] says that value i is smaller than value j.
Argsort(less, tieBreak) ==
  LET Before(i, j) ==
        \/ less[i][j]
        \/ /\ ~less[j][i]
           /\ IF tieBreak = "index_asc" THEN i < j ELSE i > j
      rank == Array([i \in DOMAIN less |->
                       Cardinality({j \in DOMAIN less : Before(j, i)}) + 1])
  IN Array([k \in DOMAIN less |-> CHOOSE i \in DOMAIN less : rank[i] = k])

\* The comparisons of an array of integers.
IntLess(vals) ==
  Array([i \in DOMAIN vals |-> Array([j \in DOMAIN vals |-> vals[i] < vals[j]])])

\* The distinct texts of a corpus, in some fixed order.
RECURSIVE SetToSeq(_)
SetToSeq(S) ==
  IF S = {} THEN << >>
  ELSE LET x == CHOOSE x \in S : TRUE IN << x >> \o SetToSeq(S \ {x})

DistinctTexts(texts) == SetToSeq({texts[i] : i \in DOMAIN texts})

\* CountVectorizer._limit_features: with more than MaxFeatures features, keep
\* the MaxFeatures with the largest corpus-wide term count,
\* (-tfs).argsort()[:limit] over the alphabetically sorted features; the
\* kept features keep their alphabetical order.
LimitFeatures(sorted, tfs, tieBreak) ==
  IF Len(sorted) <= MaxFeatures THEN sorted
  ELSE LET order == Argsort(IntLess(Array([c \in DOMAIN sorted |-> 0 - tfs[c]])), tieBreak)
           kept == {order[k] : k \in 1..MaxFeatures}
       IN SelectSeq([c \in DOMAIN sorted |-> IF c \in kept THEN sorted[c] ELSE << >>],
                    LAMBDA g : g # << >>)

\* TfidfVectorizer.fit(texts) on a non-empty corpus: the fingerprint space,
\* the retained features in column order with the idf of each.  Rows with
\* one text are counted together.
Fit(texts, tieBreak) ==
  LET distinct == DistinctTexts(texts)
      mult == Array([d \in DOMAIN distinct |->
                       Cardinality({i \in DOMAIN texts : texts[i] = distinct[d]})])
      grams == Array([d \in DOMAIN distinct |-> NGrams(distinct[d])])
      gramSet == Array([d \in DOMAIN distinct |-> {grams[d][k] : k \in DOMAIN grams[d]}])
      sorted == SortedFeatures(UNION {gramSet[d] : d \in DOMAIN distinct})
      tfs == [c \in DOMAIN sorted |->
                SumSeq([d \in DOMAIN distinct |-> mult[d] * TermCount(sorted[c], grams[d])])]
      vocabulary == LimitFeatures(sorted, tfs, tieBreak)
      docfreq == [c \in DOMAIN vocabulary |->
                SumSeq([d \in DOMAIN distinct |->
                          IF vocabulary[c] \in gramSet[d] THEN mult[d] ELSE 0])]
  IN [vocabulary |-> vocabulary,
      idf |-> Array([c \in DOMAIN vocabulary |-> Idf(Len(texts), docfreq[c])])]

\* TfidfVectorizer.transform([text]).toarray()[0]: term count times idf for
\* each column of the space; n-grams outside the vocabulary are dropped.
Transform(space, text) ==
  LET grams == NGrams(text)
  IN Array([c \in DOMAIN space.vocabulary |->
              TermCount(space.vocabulary[c], grams) * space.idf[c]])

\* TfidfVectorizer.fit_transform(texts).toarray(): one row per text.
FitTransform(texts, tieBreak) ==
  LET space == Fit(texts, tieBreak)
      distinct == DistinctTexts(texts)
      byText == Array([d \in DOMAIN distinct |-> Transform(space, distinct[d])])
  IN Array([i \in DOMAIN texts |-> byText[IndexIn(distinct, texts[i])]])

(***************************************************************************)
(* sklearn.metrics.pairwise.cosine_similarity                              *)
(***************************************************************************)
Dot(u, v) == SumSeq([c \in DOMAIN u |-> u[c] * v[c]])

\* The cosine of two vectors of one length, as the reduced fraction of its
\* square; a zero vector has similarity 0.0 with everything.
Cosine(q, e) ==
  LET qq == Dot(q, q)
      ee == Dot(e, e)
      qe == Dot(q, e)
  IN IF qq = 0 \/ ee = 0 \/ qe = 0 THEN << 0, 1 >>
     ELSE LET g == Gcd(qe * qe, qq * ee) IN << (qe * qe) \div g, (qq * ee) \div g >>

ONE == << 1, 1 >>

ZERO == << 0, 1 >>

\* n1/d1 < n2/d2 for non-negative fractions, by continued fractions (no
\* product of two denominators is formed).
RECURSIVE FracLess(_, _, _, _)
FracLess(n1, d1, n2, d2) ==
  LET q1 == n1 \div d1
      q2 == n2 \div d2
      r1 == n1 % d1
      r2 == n2 % d2
  IN IF q1 # q2 THEN q1 < q2
     ELSE IF r2 = 0 THEN FALSE
     ELSE IF r1 = 0 THEN TRUE
     ELSE FracLess(d2, r2, d1, r1)

SimLess(a, b) == FracLess(a[1], a[2], b[1], b[2])

\* The comparisons of an array of similarities.
SimsLess(sims) ==
  Array([i \in DOMAIN sims |-> Array([j \in DOMAIN sims |-> SimLess(sims[i], sims[j])])])

(***************************************************************************)
(* pickle: the stored fingerprint bytes.                                   *)
(***************************************************************************)
\* pickle.dumps(emb, protocol=4)
Dumps(emb) == [protocol |-> 4, payload |-> emb]

\* Bytes pickle.loads raises on.
Garbage == [protocol |-> 0, payload |-> << >>]

\* pickle.loads(bytes) returns (TRUE) or raises (FALSE)
Loadable(bytes) == bytes.protocol = 4

\* pickle.loads(bytes), for bytes it returns on
Loads(bytes) == bytes.payload

(***************************************************************************)
(* routes.dat                                                              *)
(***************************************************************************)
NULL == "\\N"

JFK == << "J", "F", "K" >>
LAX == << "L", "A", "X" >>
SFO == << "S", "F", "O" >>
ORD == << "O", "R", "D" >>
ATL == << "A", "T", "L" >>
DFW == << "D", "F", "W" >>
DEN == << "D", "E", "N" >>
MIA == << "M", "I", "A" >>
BOS == << "B", "O", "S" >>
PHX == << "P", "H", "X" >>
IAH == << "I", "A", "H" >>
EWR == << "E", "W", "R" >>

Text(r) == r.source \o << "-" >> \o r.dest

FileRow(airline, source, source_id, dest, dest_id) ==
  [airline |-> airline, source |-> source, source_id |-> source_id,
   dest |-> dest, dest_id |-> dest_id]

\* The rows small data files are made of: the same pair flown by two
\* airlines, a second pair, and a row without a source airport id.
RowPool ==
  { FileRow("AA", JFK, "3797", LAX, "3484"),
    FileRow("UA", JFK, "3797", LAX, "3484"),
    FileRow("AA", JFK, "3797", SFO, "3469"),
    FileRow("DL", LAX, NULL, JFK, "3797") }

RECURSIVE SeqsUpTo(_, _)
SeqsUpTo(S, n) ==
  IF n = 0 THEN {<< >>}
  ELSE LET shorter == SeqsUpTo(S, n - 1)
       IN shorter \cup {Append(q, x) : q \in {p \in shorter : Len(p) = n - 1}, x \in S}

\* ["JFK-LAX", "LAX-JFK", "JFK-SFO"]
ExampleFile ==
  << FileRow("AA", JFK, "3797", LAX, "3484"),
     FileRow("AA", LAX, "3484", JFK, "3797"),
     FileRow("UA", JFK, "3797", SFO, "3469") >>

SmallFiles == SeqsUpTo(RowPool, MaxRows) \cup {ExampleFile}

\* Files of rows that are all retained: two pairs, each possibly repeated.
ServeFiles ==
  SeqsUpTo({ FileRow("AA", JFK, "3797", LAX, "3484"),
             FileRow("AA", JFK, "3797", SFO, "3469") }, MaxRows) \cup {ExampleFile}

\* A file with more than MaxFeatures distinct n-grams: five pairs, each
\* flown by two airlines, and one pair flown once that shares no n-gram
\* with the others.
CapFile ==
  << FileRow("AA", LAX, "3484", ORD, "3830"), FileRow("UA", LAX, "3484", ORD, "3830"),
     FileRow("DL", ATL, "3682", DFW, "3670"), FileRow("AA", ATL, "3682", DFW, "3670"),
     FileRow("UA", DEN, "3751", MIA, "3576"), FileRow("AA", DEN, "3751", MIA, "3576"),
     FileRow("B6", BOS, "3448", PHX, "3462"), FileRow("AA", BOS, "3448", PHX, "3462"),
     FileRow("UA", IAH, "3550", EWR, "3494"), FileRow("AA", IAH, "3550", EWR, "3494"),
     FileRow("B6", JFK, "3797", SFO, "3469") >>

\* A file with n rows that are retained, after one row that is dropped for
\* its missing airport id; two airlines fly the first pair.
BatchRows ==
  << FileRow("AA", JFK, "3797", LAX, "3484"),
     FileRow("UA", JFK, "3797", LAX, "3484"),
     FileRow("AA", JFK, "3797", SFO, "3469") >>

BatchFile(n) ==
  << FileRow("DL", LAX, NULL, JFK, "3797") >> \o [i \in 1..n |-> BatchRows[(i % 3) + 1]]

\* Row counts below, at and above one and two batches.
BatchFiles ==
  {BatchFile(n) : n \in {BatchSize - 1, BatchSize, BatchSize + 1,
                         2 * BatchSize, 2 * BatchSize + 1}}


(***************************************************************************)
(* State                                                                   *)
(***************************************************************************)
VARIABLES
  tie,        \* where the numpy build puts equal values in argsort
  file,       \* the rows of data/routes.dat
  routes,     \* db.routes, in insertion order
  ipc,        \* position of ingest_routes_with_embeddings
  df,         \* its data frame: the retained rows, with route_text
  dense,      \* its matrix of fingerprints, one row per row of df
  idx,        \* rows of df put into records so far
  records,    \* the batch being filled
  replaced,   \* what the run's delete_many removed, until the run ends
  bad,        \* damaged documents in storage
  call        \* the get_similar_routes call whose response is pending

vars == << tie, file, routes, ipc, df, dense, idx, records, replaced, bad, call >>


NoCall == [status |-> "none"]

TieBreaks == {"index_asc", "index_desc"}

(***************************************************************************)
(* get_similar_routes (server.py)                                          *)
(***************************************************************************)
\* raise HTTPException(status_code=500, ...), a wrong status for "not found"
NotFoundAsServerError(detail) == [status |-> 500, detail |-> detail]

\* raise HTTPException(status_code=404, detail=detail)
NotFound(detail) == [status |-> 404, detail |-> detail]

\* An exception nothing catches: the framework answers 500.
Unhandled(error) == [status |-> 500, detail |-> error]

\* return results
Returned(results) == [status |-> 200, body |-> results]

\* destination and source swapped
RouteTextSwapped(source, destination) == Upper(destination) \o << "-" >> \o Upper(source)

\* f"{source.upper()}-{destination.upper()}"
RouteText(source, destination) == Upper(source) \o << "-" >> \o Upper(destination)

\* db.routes.find({"embedding": {"$exists": True}}, {"_id": 0}).to_list(None)
FindWithEmbedding(coll) == SelectSeq(coll, LAMBDA r : "embedding" \in DOMAIN r)

\* The fields of a route the loop reads with route[...]; a missing one
\* raises KeyError.
RequiredFields == {"route_text", "source", "dest"}

\* The dict appended to route_info.
RouteInfo(route) ==
  [route_text |-> route.route_text,
   source |-> route.source,
   dest |-> route.dest,
   airline |-> IF "airline" \in DOMAIN route THEN route.airline ELSE "Unknown"]

\* for route in all_routes: try: ... except: continue
\* The embedding is appended before the metadata is read, so a KeyError on
\* the metadata leaves the embedding in the list.
RECURSIVE DecodeLoop(_, _, _)
DecodeLoop(rest, embeddings, route_info) ==
  IF rest = << >> THEN [embeddings |-> embeddings, route_info |-> route_info]
  ELSE LET route == Head(rest)
       IN IF ~Loadable(route.embedding)
          THEN DecodeLoop(Tail(rest), embeddings, route_info)
          ELSE IF ~(RequiredFields \subseteq DOMAIN route)
          THEN DecodeLoop(Tail(rest), Append(embeddings, Loads(route.embedding)),
                          route_info)
          ELSE DecodeLoop(Tail(rest), Append(embeddings, Loads(route.embedding)),
                          Append(route_info, RouteInfo(route)))

Reverse(s) == [k \in DOMAIN s |-> s[Len(s) + 1 - k]]

\* similarities.argsort()[-top_k:][::-1], as 1-based row numbers
TopIndices(similarities, top_k, tieBreak) ==
  LET order == Argsort(SimsLess(similarities), tieBreak)
      n == Len(order)
  IN Reverse(SubSeq(order, Max(1, n - top_k + 1), n))

\* np.vstack(embeddings) raises unless all rows have one length.
Stackable(embeddings) ==
  \A i, j \in DOMAIN embeddings : Len(embeddings[i]) = Len(embeddings[j])

\* The whole handler on the collection as the fetch finds it.  The result
\* records the locals the handler had when it ended and its response;
\* locals it never assigned are empty.
GetSimilarRoutes(source, destination, top_k, coll, tieBreak) ==
  LET route_text == RouteText(source, destination)
      all_routes == FindWithEmbedding(coll)
      decoded == DecodeLoop(all_routes, << >>, << >>)
      embeddings == decoded.embeddings
      route_info == decoded.route_info
      all_route_texts == Array([i \in DOMAIN route_info |-> route_info[i].route_text])
      vectorizer == Fit(all_route_texts, tieBreak)
      query_vector == Transform(vectorizer, route_text)
      similarities == Array([i \in DOMAIN embeddings |->
                               Cosine(query_vector, embeddings[i])])
      top_indices == TopIndices(similarities, top_k, tieBreak)
      results == [k \in DOMAIN top_indices |->
                    [route_text |-> route_info[top_indices[k]].route_text,
                     source |-> route_info[top_indices[k]].source,
                     dest |-> route_info[top_indices[k]].dest,
                     airline |-> route_info[top_indices[k]].airline,
                     similarity |-> similarities[top_indices[k]]]]
      base == [status |-> "done", source |-> source, destination |-> destination,
               top_k |-> top_k, route_text |-> route_text, all_routes |-> all_routes,
               embeddings |-> << >>, route_info |-> << >>, all_route_texts |-> << >>,
               query_vector |-> << >>, similarities |-> << >>, top_indices |-> << >>,
               reached |-> "fetch", response |-> NotFound("")]
      loaded == [base EXCEPT !.embeddings = embeddings, !.route_info = route_info]
      fitted == [loaded EXCEPT !.all_route_texts = all_route_texts,
                               !.query_vector = query_vector]
  IN IF all_routes = << >>
     THEN [base EXCEPT !.response = NotFound("No routes with embeddings found")]
     ELSE IF embeddings = << >>
     THEN [loaded EXCEPT !.reached = "decode",
                         !.response = NotFound("No valid embeddings found")]
     ELSE IF all_route_texts = << >>
     THEN [loaded EXCEPT !.reached = "fit",
                         !.response = Unhandled("ValueError: empty vocabulary")]
     ELSE IF ~Stackable(embeddings)
     THEN [fitted EXCEPT !.reached = "vstack",
                         !.response = Unhandled("ValueError: vstack")]
     ELSE IF Len(query_vector) # Len(embeddings[1])
     THEN [fitted EXCEPT !.reached = "cosine_similarity",
                         !.response = Unhandled("ValueError: incompatible dimension")]
     ELSE IF \E k \in DOMAIN top_indices : top_indices[k] > Len(route_info)
     THEN [fitted EXCEPT !.similarities = similarities, !.top_indices = top_indices,
                         !.reached = "results",
                         !.response = Unhandled("IndexError")]
     ELSE [fitted EXCEPT !.similarities = similarities, !.top_indices = top_indices,
                         !.reached = "return",
                         !.response = Returned(results)]

(***************************************************************************)
(* ingest_routes_with_embeddings (data_ingestion.py)                       *)
(***************************************************************************)
\* astype(int) on the airport ids the files use
AsInt(field) ==
  CASE field = "3797" -> 3797
    [] field = "3484" -> 3484
    [] field = "3469" -> 3469
    [] field = "3830" -> 3830
    [] field = "3682" -> 3682
    [] field = "3670" -> 3670
    [] field = "3751" -> 3751
    [] field = "3576" -> 3576
    [] field = "3448" -> 3448
    [] field = "3462" -> 3462
    [] field = "3550" -> 3550
    [] field = "3494" -> 3494

\* df.dropna(subset=['source_id', 'dest_id']), the ids as integers, then the
\* route_text column
DataFrame(rows) ==
  LET kept == SelectSeq(rows, LAMBDA r : r.source_id # NULL /\ r.dest_id # NULL)
  IN [i \in DOMAIN kept |->
        [airline |-> kept[i].airline, source |-> kept[i].source,
         source_id |-> AsInt(kept[i].source_id), dest |-> kept[i].dest,
         dest_id |-> AsInt(kept[i].dest_id), route_text |-> Text(kept[i])]]

RouteTexts(frame) == [i \in DOMAIN frame |-> frame[i].route_text]

\* The document built for row number i (0-based, as enumerate counts) of the
\* frame.  Columns the recommender never reads (airline_id, codeshare,
\* stops, equipment) are left out.
Record(row, i, emb) ==
  [id |-> i + 1, airline |-> row.airline, source |-> row.source,
   source_id |-> row.source_id, dest |-> row.dest, dest_id |-> row.dest_id,
   route_text |-> row.route_text, embedding |-> Dumps(emb)]

\* What a completed run over the frame stores.
Stored(frame, matrix) == [i \in DOMAIN frame |-> Record(frame[i], i - 1, matrix[i])]

\* What a completed run over a one-row file of an older data set stored.
LegacyRoutes ==
  LET frame == DataFrame(<< FileRow("UA", SFO, "3469", LAX, "3484") >>)
  IN Stored(frame, FitTransform(RouteTexts(frame), "index_asc"))


\* Read the file, fit and transform, then delete_many({}).  fit_transform
\* raises ValueError (empty vocabulary) on a frame without rows, before
\* anything is deleted.
IngestBegin ==
  /\ call = NoCall
  /\ ipc \in {"idle", "done", "failed"}
  /\ df' = DataFrame(file)
  /\ idx' = 0
  /\ records' = << >>
  /\ IF df' = << >>
     THEN /\ ipc' = "failed"
          /\ dense' = << >>
          /\ UNCHANGED << routes, replaced, bad >>
     ELSE /\ dense' = FitTransform(RouteTexts(df'), tie)
          /\ replaced' = routes
          /\ routes' = << >>
          /\ bad' = 0
          /\ ipc' = "loop"
  /\ UNCHANGED << tie, file, call >>

\* The records the loop body builds for rows first+1 .. last of the frame.
LoopRecords(first, last) ==
  [k \in 1..(last - first) |->
     Record(df[first + k], first + k - 1, dense[first + k])]

\* The row at which the loop next leaves its body for the database: the one
\* that brings records to BatchSize, or the last row of the frame.
NextStop == Min(idx + (BatchSize - Len(records)), Len(df))

\* The loop as below, with a full batch emptied but never inserted.
IngestRowsLosesFullBatch ==
  /\ call = NoCall
  /\ ipc = "loop"
  /\ idx < Len(df)
  /\ LET batch == records \o LoopRecords(idx, NextStop)
     IN records' = IF Len(batch) >= BatchSize THEN << >> ELSE batch
  /\ idx' = NextStop
  /\ UNCHANGED << tie, file, routes, ipc, df, dense, replaced, bad, call >>

\* The loop from row idx up to its next insert_many or the end of the frame:
\* each pass builds a record and appends it, and the pass that brings
\* records to BatchSize inserts them and starts an empty list.  Passes that
\* only append touch nothing another process can see, so they are taken
\* together with the pass that ends them.
IngestRows ==
  /\ call = NoCall
  /\ ipc = "loop"
  /\ idx < Len(df)
  /\ LET batch == records \o LoopRecords(idx, NextStop)
     IN IF Len(batch) >= BatchSize
        THEN routes' = routes \o batch /\ records' = << >>
        ELSE records' = batch /\ UNCHANGED routes
  /\ idx' = NextStop
  /\ UNCHANGED << tie, file, ipc, df, dense, replaced, bad, call >>

\* After the loop: insert the remaining records, if any.
IngestRemainder ==
  /\ call = NoCall
  /\ ipc = "loop"
  /\ idx = Len(df)
  /\ routes' = IF records # << >> THEN routes \o records ELSE routes
  /\ records' = << >>
  /\ ipc' = "indexes"
  /\ UNCHANGED << tie, file, df, dense, idx, replaced, bad, call >>

\* create_index ... ; return len(df)
IngestIndexes ==
  /\ call = NoCall
  /\ ipc = "indexes"
  /\ ipc' = "done"
  /\ replaced' = << >>
  /\ UNCHANGED << tie, file, routes, df, dense, idx, records, bad, call >>

(***************************************************************************)
(* Storage written from outside the two programs                           *)
(***************************************************************************)
Drop(doc, field) == [f \in (DOMAIN doc) \ {field} |-> doc[f]]

DamageKinds == {"unreadable", "no_route_text", "no_embedding"}

Damaged(doc, kind) ==
  CASE kind = "unreadable" -> [doc EXCEPT !.embedding = Garbage]
    [] kind = "no_route_text" -> Drop(doc, "route_text")
    [] kind = "no_embedding" -> Drop(doc, "embedding")

\* A stored route loses a field or has its fingerprint bytes overwritten.
Damage ==
  /\ call = NoCall
  /\ ipc = "done"
  /\ bad < MaxBad
  /\ \E i \in DOMAIN routes, kind \in DamageKinds :
       /\ routes[i] = Record(df[routes[i].id], routes[i].id - 1, dense[routes[i].id])
       /\ routes' = [routes EXCEPT ![i] = Damaged(routes[i], kind)]
  /\ bad' = bad + 1
  /\ UNCHANGED << tie, file, ipc, df, dense, idx, records, replaced, call >>

(***************************************************************************)
(* Requests                                                                *)
(***************************************************************************)
QuerySources == {JFK, << "j", "f", "k" >>}

QueryDestinations == {LAX, << "L", "a", "x" >>, SFO}

\* GET /recommendations/similar-routes: the await of the fetch is the only
\* point where the handler sees storage or gives way to other work, so the
\* handler runs from the fetch to its end before any other step is taken
\* (the other actions wait for call = NoCall).
Request ==
  /\ call = NoCall
  /\ \E source \in QuerySources, destination \in QueryDestinations, top_k \in 1..MaxTopK :
       call' = GetSimilarRoutes(source, destination, top_k, routes, tie)
  /\ UNCHANGED << tie, file, routes, ipc, df, dense, idx, records, replaced, bad >>

\* The response goes out; the handler's locals are gone.
Respond ==
  /\ call # NoCall
  /\ call' = NoCall
  /\ UNCHANGED << tie, file, routes, ipc, df, dense, idx, records, replaced, bad >>

(***************************************************************************)
(* Specifications                                                          *)
(***************************************************************************)
InitWith(files, ties, stored) ==
  /\ tie \in ties
  /\ file \in files
  /\ routes \in stored
  /\ ipc = "idle"
  /\ df = << >>
  /\ dense = << >>
  /\ idx = 0
  /\ records = << >>
  /\ replaced = << >>
  /\ bad = 0
  /\ call = NoCall

\* Small data files, storage empty before the first run.
Init == InitWith(SmallFiles, TieBreaks, {<< >>})

Next ==
  \/ IngestBegin
  \/ IngestRows
  \/ IngestRemainder
  \/ IngestIndexes
  \/ Damage
  \/ Request
  \/ Respond

Spec == Init /\ [][Next]_vars

\* Storage as a completed run over a file of retained rows left it (or as
\* the failed run over the empty file left it); storage damage and requests.
InitServe ==
  /\ tie \in TieBreaks
  /\ file \in ServeFiles
  /\ df = DataFrame(file)
  /\ dense = IF df = << >> THEN << >> ELSE FitTransform(RouteTexts(df), tie)
  /\ routes = Stored(df, dense)
  /\ ipc = IF df = << >> THEN "failed" ELSE "done"
  /\ idx = Len(df)
  /\ records = << >>
  /\ replaced = << >>
  /\ bad = 0
  /\ call = NoCall

NextServe ==
  \/ Damage
  \/ Request
  \/ Respond

SpecServe == InitServe /\ [][NextServe]_vars

\* Data files around the batch size, storage holding what a run over an
\* older file left, or nothing; ingestion alone.
InitBatch == InitWith(BatchFiles, TieBreaks, {<< >>, LegacyRoutes})

NextBatch ==
  \/ IngestBegin
  \/ IngestRows
  \/ IngestRemainder
  \/ IngestIndexes

SpecBatch == InitBatch /\ [][NextBatch]_vars

\* The file whose n-grams exceed the feature limit and the example file;
\* ingestion and requests, storage left alone.
InitCap == InitWith({CapFile, ExampleFile}, TieBreaks, {<< >>})

NextCap ==
  \/ IngestBegin
  \/ IngestRows
  \/ IngestRemainder
  \/ IngestIndexes
  \/ Request
  \/ Respond

SpecCap == InitCap /\ [][NextCap]_vars

(***************************************************************************)
(* Properties                                                              *)
(***************************************************************************)
Pending == call # NoCall

Status == call.response.status

Body == call.response.body

\* The fetched rows whose fingerprint pickle.loads returns on, in order.
DecodedRows == SelectSeq(call.all_routes, LAMBDA r : Loadable(r.embedding))

IsZero(vector) == \A c \in DOMAIN vector : vector[c] = 0

\* Two codes that differ at most in the case of their letters.
SameIgnoringCase(a, b) ==
  /\ Len(a) = Len(b)
  /\ \A i \in DOMAIN a :
       \/ a[i] = b[i]
       \/ \E n \in DOMAIN LowerChars :
            {a[i], b[i]} = {LowerChars[n], UpperChars[n]}

\* C1: for every positive top_k and every stored corpus with at least one
\* readable route, the call returns exactly min(top_k, R) results, R being
\* the number of rows whose fingerprint was decoded.
C1_ReturnsMinTopKRows ==
  ( /\ Pending
    /\ \E i \in DOMAIN call.all_routes :
         /\ Loadable(call.all_routes[i].embedding)
         /\ RequiredFields \subseteq DOMAIN call.all_routes[i] ) =>
    /\ Status = 200
    /\ Len(Body) = Min(call.top_k, Len(call.embeddings))

\* C2: the results are the first top_k entries of a stable descending sort
\* by similarity: similarities never increase along the list, and of two
\* rows with equal similarity the one earlier in the corpus comes first and
\* is the one kept.
C2_StableDescendingOrder ==
  (Pending /\ Status = 200) =>
    LET t == call.top_indices
        sim == call.similarities
        chosen == {t[k] : k \in DOMAIN t}
    IN /\ \A k, l \in DOMAIN t :
            k < l => /\ ~SimLess(sim[t[k]], sim[t[l]])
                     /\ sim[t[k]] = sim[t[l]] => t[k] < t[l]
       /\ \A j \in (DOMAIN sim) \ chosen : \A k \in DOMAIN t :
            /\ ~SimLess(sim[t[k]], sim[j])
            /\ sim[t[k]] = sim[j] => t[k] < j

\* C3: when storage holds no route with a fingerprint, the call ends with
\* 404, whatever the source, destination and top_k.
C3_NoFingerprintsNotFound ==
  (Pending /\ \A i \in DOMAIN routes : "embedding" \notin DOMAIN routes[i]) =>
    Status = 404

\* A call answered 404 on storage that holds a route, but none with a
\* fingerprint.
C3_Witness ==
  /\ Pending
  /\ routes # << >>
  /\ \A i \in DOMAIN routes : "embedding" \notin DOMAIN routes[i]
  /\ Status = 404

\* C4: a row whose fingerprint is unreadable is skipped and never aborts the
\* request: the call completes with results drawn from the readable rows,
\* and ends with 404 exactly when every row is unreadable.
C4_UnreadableRowsSkipped ==
  ( /\ Pending
    /\ call.all_routes # << >>
    /\ \A i \in DOMAIN call.all_routes : RequiredFields \subseteq DOMAIN call.all_routes[i] ) =>
    IF DecodedRows = << >> THEN Status = 404
    ELSE /\ Status = 200
         /\ \A k \in DOMAIN Body : \E i \in DOMAIN DecodedRows :
              /\ "route_text" \in DOMAIN DecodedRows[i]
              /\ Body[k].route_text = DecodedRows[i].route_text

\* C5: in every call that reaches scoring, the space the query is encoded in
\* is fit over the same corpus of route strings that produced the stored
\* fingerprints, so the query vector has the columns of the stored matrix.
C5_QuerySpaceIsStoredSpace ==
  (Pending /\ call.reached \in {"cosine_similarity", "results", "return"}) =>
    /\ Fit(call.all_route_texts, tie).vocabulary = Fit(RouteTexts(df), tie).vocabulary
    /\ \A i \in DOMAIN call.embeddings :
         Len(call.embeddings[i]) = Len(call.query_vector)

\* C6: the call is case-insensitive in its airport codes: with the corpus
\* unchanged, codes in another case give the same response.
C6_CaseInsensitive ==
  Pending =>
    \A source \in QuerySources, destination \in QueryDestinations :
      ( /\ << source, destination >> # << call.source, call.destination >>
        /\ SameIgnoringCase(source, call.source)
        /\ SameIgnoringCase(destination, call.destination) ) =>
      GetSimilarRoutes(source, destination, call.top_k, routes, tie).response
        = call.response

\* A call with a lower-case source that returned a route with a positive
\* similarity.
C6_Witness ==
  /\ Pending
  /\ call.source = << "j", "f", "k" >>
  /\ Status = 200
  /\ Body # << >>
  /\ Body[1].similarity # ZERO

\* The stored rows whose route string is the query's.
MatchingRows == {i \in DOMAIN call.all_routes : call.all_routes[i].route_text = call.route_text}

\* The example of C7: the corpus ["JFK-LAX", "LAX-JFK", "JFK-SFO"] asked for
\* (JFK, LAX, top_k = 2) returns "JFK-LAX" first with similarity 1.0 and
\* exactly two results.
ExampleHolds ==
  ( /\ Pending
    /\ ipc = "done"
    /\ file = ExampleFile
    /\ SameIgnoringCase(call.source, JFK)
    /\ SameIgnoringCase(call.destination, LAX)
    /\ call.top_k = 2 ) =>
    /\ Status = 200
    /\ Len(Body) = 2
    /\ Body[1].route_text = JFK \o << "-" >> \o LAX
    /\ Body[1].similarity = ONE

\* C7 as stated: after ingesting a corpus, a query whose route string equals
\* a stored route string gets that route as the top (or tied-top) result
\* with similarity 1.0; and the example.
C7_ExactMatchScoresOne ==
  /\ (Pending /\ ipc = "done" /\ MatchingRows # {}) =>
       /\ Status = 200
       /\ Body[1].similarity = ONE
       /\ \A i \in MatchingRows : call.similarities[i] = ONE
  /\ ExampleHolds

\* C7 amended: the exact match scores 1.0 and ties the top result unless its
\* stored fingerprint is the zero vector (none of its n-grams is among the
\* retained features), in which case it scores 0.0; and the example.
C7_ExactMatchScoresOneUnlessZero ==
  /\ (Pending /\ ipc = "done" /\ MatchingRows # {}) =>
       /\ Status = 200
       /\ \A i \in MatchingRows :
            IF IsZero(call.embeddings[i])
            THEN call.similarities[i] = ZERO
            ELSE call.similarities[i] = ONE /\ Body[1].similarity = ONE
  /\ ExampleHolds

\* The example call of C7, answered.
C7_Witness ==
  /\ Pending
  /\ ipc = "done"
  /\ file = ExampleFile
  /\ call.source = JFK
  /\ call.destination = LAX
  /\ call.top_k = 2
  /\ Status = 200
  /\ Body[1].similarity = ONE

\* C8: when a run completes over N retained rows, the collection holds
\* exactly N records, one per row in row order with ids 1..N, pairs flown by
\* several airlines kept as distinct records, and nothing of an earlier run.
C8_EveryRowStoredOnce ==
  ipc = "done" =>
    /\ Len(routes) = Len(df)
    /\ \A i \in DOMAIN routes :
         /\ routes[i].id = i
         /\ routes[i].airline = df[i].airline
         /\ routes[i].source = df[i].source
         /\ routes[i].dest = df[i].dest
         /\ routes[i].route_text = df[i].route_text

\* A completed run over two full batches and one more row, with one pair
\* stored for two airlines.
C8_Witness ==
  /\ ipc = "done"
  /\ Len(df) = 2 * BatchSize + 1
  /\ Len(routes) = Len(df)
  /\ routes[1].route_text = routes[3].route_text
  /\ routes[1].airline # routes[3].airline

\* C9: after the decode loop the fingerprint list and the metadata list
\* have one length and are aligned: entry j of each comes from the j-th
\* decoded row.
C9_ListsAligned ==
  Pending =>
    /\ Len(call.embeddings) = Len(call.route_info)
    /\ \A j \in DOMAIN call.route_info :
         /\ call.embeddings[j] = Loads(DecodedRows[j].embedding)
         /\ call.route_info[j].route_text = DecodedRows[j].route_text

\* C10: a fetch made while a run is between its delete and its last insert
\* reads the whole previous corpus or the whole new one.
C10_FetchSeesWholeCorpus ==
  [][(call = NoCall /\ call' # NoCall /\ ipc = "loop") =>
       call'.all_routes \in {FindWithEmbedding(replaced), Stored(df, dense)}]_vars

====
